---- MODULE Spec2Model ----
(***************************************************************************)
(* Model of schema_registry_converter: src/schema_registry.rs (wire codec, *)
(* subject naming, registry protocol over HTTP, SRCError) and              *)
(* src/async_impl/easy_proto_decoder.rs.                                   *)
(*                                                                         *)
(* Representation notes.                                                   *)
(*  - A u8 is a number in 0..255, a Vec<u8> a sequence of them.            *)
(*  - TLC's integers are 32-bit signed, so a u32 is kept as two 16-bit     *)
(*    limbs [hi, lo] with value hi * 65536 + lo; every conversion of a u32 *)
(*    (to bytes, from bytes, to decimal text) is computed on the limbs.    *)
(*  - A Rust String is a TLA+ string; format! is concatenation.            *)
(*  - Option<T> is [some |-> FALSE] or [some |-> TRUE, v |-> x].           *)
(***************************************************************************)
EXTENDS Integers, Sequences, FiniteSets, TLC

VARIABLES
    \* wire codec: the caller's input, the framed record, the decoded result
    codecIn, codecWire, codecOut,
    \* registry protocol: the operation called and its arguments, the frames of
    \* post_schema / post_reference still running, the value returned to the
    \* caller, and the HTTP calls made so far
    call, stack, result, http,
    \* SRCError: the error value at hand and the operations that made it
    srcError, srcOps,
    \* decoder facade: the calls of decode in the order they were made, each
    \* with its position, the Mutex and the cache of each EasyProtoDecoder,
    \* and per decoder the calls that fetched from the registry and the calls
    \* that returned, in order
    task, mutex, cache, fetches, returns

codecVars == <<codecIn, codecWire, codecOut>>
regVars == <<call, stack, result, http>>
errorVars == <<srcError, srcOps>>
decoderVars == <<task, mutex, cache, fetches, returns>>
vars == <<codecIn, codecWire, codecOut, call, stack, result, http,
          srcError, srcOps, task, mutex, cache, fetches, returns>>

None == [some |-> FALSE]
Some(x) == [some |-> TRUE, v |-> x]

(***************************************************************************)
(* Bounds of the model.                                                    *)
(***************************************************************************)
\* longest raw record handed to get_bytes_result
MaxBytes == 6
\* longest payload handed to get_payload
MaxPayload == 2

(***************************************************************************)
(* Sample values.                                                          *)
(***************************************************************************)
ByteVals == {0, 1, 255}

RECURSIVE SeqsUpTo(_, _)
SeqsUpTo(S, n) ==
    IF n = 0 THEN {<<>>}
    ELSE LET shorter == SeqsUpTo(S, n - 1)
         IN  shorter \cup {Append(s, x) : s \in {t \in shorter : Len(t) = n - 1}, x \in S}

Idle == [op |-> "idle"]
NotReturned == [tag |-> "NotReturned"]
Ok(x) == [tag |-> "Ok", v |-> x]
Err(e) == [tag |-> "Err", e |-> e]

U32(h, l) == [hi |-> h, lo |-> l]
\* 0, 1, 255, 256, 65535, 65536, 0x01020304, 0xFF000001, 0xFFFFFFFF
SampleIds == {U32(0, 0), U32(0, 1), U32(0, 255), U32(0, 256), U32(0, 65535),
              U32(1, 0), U32(258, 772), U32(65280, 1), U32(65535, 65535)}

(***************************************************************************)
(* Wire codec: schema_registry.rs 60-111.                                  *)
(***************************************************************************)
BytesNull == [tag |-> "Null"]
BytesInvalid(p) == [tag |-> "Invalid", bytes |-> p]
BytesValid(id, payload) == [tag |-> "Valid", id |-> id, payload |-> payload]

\* byteorder: BigEndian::write_u32(&mut buf, id)
write_u32_le(id) == <<id.lo % 256, id.lo \div 256, id.hi % 256, id.hi \div 256>>
write_u32(id) == <<id.hi \div 256, id.hi % 256, id.lo \div 256, id.lo % 256>>

\* byteorder: buf.read_u32::<BigEndian>() on a 4-byte slice
read_u32(buf) == U32(buf[1] * 256 + buf[2], buf[3] * 256 + buf[4])

\* the tail p[from..] of a slice, with Rust's 0-based start index
SliceFrom(p, from) == SubSeq(p, from + 1, Len(p))

get_bytes_result_no_magic(bytes) ==
    IF ~bytes.some THEN BytesNull
    ELSE LET p == bytes.v
         IN  IF Len(p) > 4
             THEN BytesValid(read_u32(SubSeq(p, 2, 5)), SliceFrom(p, 5))
             ELSE BytesInvalid(p)

get_bytes_result_len5(bytes) ==
    IF ~bytes.some THEN BytesNull
    ELSE LET p == bytes.v
         IN  IF Len(p) > 5 /\ p[1] = 0
             THEN BytesValid(read_u32(SubSeq(p, 2, 5)), SliceFrom(p, 5))
             ELSE BytesInvalid(p)

get_bytes_result(bytes) ==
    IF ~bytes.some THEN BytesNull
    ELSE LET p == bytes.v
         IN  IF Len(p) > 4 /\ p[1] = 0
             THEN BytesValid(read_u32(SubSeq(p, 2, 5)), SliceFrom(p, 5))
             ELSE BytesInvalid(p)

get_payload_le(id, encoded_bytes) == <<0>> \o write_u32_le(id) \o encoded_bytes

get_payload(id, encoded_bytes) == <<0>> \o write_u32(id) \o encoded_bytes

(***************************************************************************)
(* The codec as a state machine: a caller either frames (id, payload) with *)
(* get_payload and hands the record to get_bytes_result, or hands          *)
(* get_bytes_result the raw key/value of a record it received.             *)
(***************************************************************************)
NotRun == [tag |-> "NotRun"]

\* the EasyProtoDecoders the callers share
Decoders == {"d1", "d2"}

\* no SRCError made yet
NoError ==
    /\ srcError = None
    /\ srcOps = <<>>

\* EasyProtoDecoder::new for every decoder: its own unlocked Mutex around a
\* ProtoDecoder with an empty cache; decode has not been called
NewDecoders ==
    /\ task = <<>>
    /\ mutex = [d \in Decoders |-> [holder |-> None, waiters |-> <<>>]]
    /\ cache = [d \in Decoders |-> <<>>]
    /\ fetches = [d \in Decoders |-> <<>>]
    /\ returns = [d \in Decoders |-> <<>>]

RawInputs == {[kind |-> "raw", bytes |-> b] :
                b \in {None} \cup {Some(p) : p \in SeqsUpTo(ByteVals, MaxBytes)}}
EncInputs == {[kind |-> "enc", id |-> i, payload |-> p] :
                i \in SampleIds, p \in SeqsUpTo(ByteVals, MaxPayload)}

InitCodec ==
    /\ codecIn \in RawInputs \cup EncInputs
    /\ codecWire = None
    /\ codecOut = NotRun
    /\ call = Idle
    /\ stack = <<>>
    /\ result = NotReturned
    /\ http = <<>>
    /\ NoError
    /\ NewDecoders

GetPayload ==
    /\ codecIn.kind = "enc"
    /\ codecWire = None
    /\ codecWire' = Some(get_payload(codecIn.id, codecIn.payload))
    /\ UNCHANGED <<codecIn, codecOut, regVars, errorVars, decoderVars>>

GetBytesResultRaw ==
    /\ codecIn.kind = "raw"
    /\ codecOut = NotRun
    /\ codecOut' = get_bytes_result(codecIn.bytes)
    /\ UNCHANGED <<codecIn, codecWire, regVars, errorVars, decoderVars>>

GetBytesResultWire ==
    /\ codecIn.kind = "enc"
    /\ codecWire.some
    /\ codecOut = NotRun
    /\ codecOut' = get_bytes_result(codecWire)
    /\ UNCHANGED <<codecIn, codecWire, regVars, errorVars, decoderVars>>

NextCodec == GetPayload \/ GetBytesResultRaw \/ GetBytesResultWire

SpecCodec == InitCodec /\ [][NextCodec]_vars

\* the bytes get_bytes_result was applied to in this run
CodecDecoded == IF codecIn.kind = "raw" THEN codecIn.bytes ELSE codecWire

(***************************************************************************)
(* C1. Round trip: decoding the record get_payload builds from (id,        *)
(* payload) gives Valid(id, payload), for every sampled u32 id (0 and      *)
(* 2^32-1 included) and every payload, the empty one included.             *)
(***************************************************************************)
C1_RoundTrip ==
    (codecIn.kind = "enc" /\ codecOut # NotRun)
        => codecOut = BytesValid(codecIn.id, codecIn.payload)

C1_Witness ==
    /\ codecIn.kind = "enc"
    /\ codecIn.id = U32(65535, 65535)
    /\ codecIn.payload = <<>>
    /\ codecOut.tag = "Valid"

(***************************************************************************)
(* C2. get_bytes_result classifies every input into exactly one result:    *)
(* absent -> Null; present p with len(p) > 4 and p[0] = 0 ->               *)
(* Valid(big-endian u32 of p[1..5], p[5..]); every other present p ->      *)
(* Invalid(p) with the bytes unchanged.                                    *)
(***************************************************************************)
C2_Classify ==
    codecOut # NotRun =>
        LET b == CodecDecoded
        IN  IF ~b.some THEN codecOut = BytesNull
            ELSE IF Len(b.v) > 4 /\ b.v[1] = 0
                 THEN /\ codecOut.tag = "Valid"
                      /\ codecOut.id.hi = 256 * b.v[2] + b.v[3]
                      /\ codecOut.id.lo = 256 * b.v[4] + b.v[5]
                      /\ Len(codecOut.payload) = Len(b.v) - 5
                      /\ \A i \in 1..Len(codecOut.payload) :
                            codecOut.payload[i] = b.v[i + 5]
                 ELSE codecOut = BytesInvalid(b.v)

C2_Witness ==
    /\ codecIn.kind = "raw"
    /\ codecIn.bytes = Some(<<1, 0, 0, 0, 1, 255>>)
    /\ codecOut.tag = "Invalid"

(***************************************************************************)
(* C3 (as claimed). Every input with first byte 0 and length 5 or fewer is *)
(* Invalid, and Valid is returned only when the length exceeds 5.          *)
(***************************************************************************)
C3_Original ==
    (codecOut # NotRun /\ CodecDecoded.some) =>
        /\ (Len(CodecDecoded.v) >= 1 /\ Len(CodecDecoded.v) <= 5
              /\ CodecDecoded.v[1] = 0) => codecOut.tag = "Invalid"
        /\ codecOut.tag = "Valid" => Len(CodecDecoded.v) > 5

(***************************************************************************)
(* C3 (amended). Every input with first byte 0 and length 4 or fewer is    *)
(* Invalid; a record of exactly the magic byte and the 4-byte id is Valid  *)
(* with that id and an empty payload; Valid is returned only when the      *)
(* length exceeds 4.                                                       *)
(***************************************************************************)
C3_Amended ==
    (codecOut # NotRun /\ CodecDecoded.some) =>
        LET p == CodecDecoded.v
        IN  /\ (Len(p) >= 1 /\ Len(p) <= 4 /\ p[1] = 0) => codecOut.tag = "Invalid"
            /\ (Len(p) = 5 /\ p[1] = 0) =>
                  /\ codecOut.tag = "Valid"
                  /\ codecOut.payload = <<>>
                  /\ write_u32(codecOut.id) = SubSeq(p, 2, 5)
            /\ codecOut.tag = "Valid" => Len(p) > 4

C3_Witness ==
    /\ codecIn.kind = "raw"
    /\ codecIn.bytes = Some(<<0, 0, 0, 1, 255>>)
    /\ codecOut = BytesValid(U32(0, 511), <<>>)

(***************************************************************************)
(* SRCError: schema_registry.rs 471-544.                                   *)
(***************************************************************************)
SRCError_new(error, cause, retriable) ==
    [error |-> error, cause |-> cause, retriable |-> retriable, cached |-> FALSE]

BoolText(b) == IF b THEN "true" ELSE "false"

\* impl fmt::Display for SRCError
SRCError_fmt(self) ==
    IF self.cause.some
    THEN "Error: " \o self.error \o ", was cause by " \o self.cause.v
            \o ", it's retriable: " \o BoolText(self.retriable)
            \o ", it's cached: " \o BoolText(self.cached)
    ELSE "Error: " \o self.error \o " had no other cause, it's retriable: "
            \o BoolText(self.retriable) \o ", it's cached: " \o BoolText(self.cached)

\* format!("{}", cause) for a cause: T where T: Display. A foreign error
\* (curl::Error, serde_json::Error, Utf8Error) is [text |-> its rendering].
Display(cause) == IF "retriable" \in DOMAIN cause THEN SRCError_fmt(cause) ELSE cause.text

retryable_with_cause(cause, error) == SRCError_new(error, Some(Display(cause)), TRUE)
non_retryable_with_cause(cause, error) == SRCError_new(error, Some(Display(cause)), FALSE)
non_retryable_without_cause(error) == SRCError_new(error, None, FALSE)

SRCError_clone_uncached(self) ==
    [error |-> self.error, cause |-> self.cause, retriable |-> self.retriable,
     cached |-> FALSE]

\* impl Clone for SRCError
SRCError_clone(self) ==
    LET side == IF self.cause.some THEN Some(self.cause.v) ELSE None
    IN  [error |-> self.error, cause |-> side, retriable |-> self.retriable,
         cached |-> self.cached]

SRCError_into_cache_uncached(self) ==
    [error |-> self.error, cause |-> self.cause, retriable |-> self.retriable,
     cached |-> self.cached]

\* pub fn into_cache
SRCError_into_cache(self) ==
    [error |-> self.error, cause |-> self.cause, retriable |-> self.retriable,
     cached |-> TRUE]

(***************************************************************************)
(* Data model: schema_registry.rs 14-85.                                   *)
(***************************************************************************)
Avro == [t |-> "Avro"]
Protobuf == [t |-> "Protobuf"]
Json == [t |-> "Json"]
Other(s) == [t |-> "Other", v |-> s]
SchemaTypes == {Avro, Protobuf, Json, Other("XML")}

SuppliedReference(name, subject, schema, references) ==
    [name |-> name, subject |-> subject, schema |-> schema, references |-> references]
SuppliedSchema(name, schema_type, schema, references) ==
    [name |-> name, schema_type |-> schema_type, schema |-> schema,
     references |-> references]
RegisteredReference(name, subject, version) ==
    [name |-> name, subject |-> subject, version |-> version]
RegisteredSchema(id, schema_type, schema, references) ==
    [id |-> id, schema_type |-> schema_type, schema |-> schema,
     references |-> references]

RecordNameStrategy(rn) == [kind |-> "RecordNameStrategy", name |-> rn]
TopicNameStrategy(t, is_key) == [kind |-> "TopicNameStrategy", topic |-> t, is_key |-> is_key]
TopicRecordNameStrategy(t, rn) ==
    [kind |-> "TopicRecordNameStrategy", topic |-> t, name |-> rn]
RecordNameStrategyWithSchema(s) == [kind |-> "RecordNameStrategyWithSchema", schema |-> s]
TopicNameStrategyWithSchema(t, is_key, s) ==
    [kind |-> "TopicNameStrategyWithSchema", topic |-> t, is_key |-> is_key, schema |-> s]
TopicRecordNameStrategyWithSchema(t, s) ==
    [kind |-> "TopicRecordNameStrategyWithSchema", topic |-> t, schema |-> s]

(***************************************************************************)
(* Subject naming: schema_registry.rs 165-210.                             *)
(***************************************************************************)
NameIsMandatory ==
    "name is mandatory in SuppliedSchema when used in TopicRecordNameStrategyWithSchema"

get_schema_topic_name_none(sns) ==
    CASE sns.kind = "RecordNameStrategy" -> None
      [] sns.kind = "TopicNameStrategy" -> None
      [] sns.kind = "TopicRecordNameStrategy" -> None
      [] sns.kind = "RecordNameStrategyWithSchema" -> Some(sns.schema)
      [] sns.kind = "TopicNameStrategyWithSchema" -> None
      [] sns.kind = "TopicRecordNameStrategyWithSchema" -> Some(sns.schema)

\* fn get_schema
get_schema(sns) ==
    CASE sns.kind = "RecordNameStrategy" -> None
      [] sns.kind = "TopicNameStrategy" -> None
      [] sns.kind = "TopicRecordNameStrategy" -> None
      [] sns.kind = "RecordNameStrategyWithSchema" -> Some(sns.schema)
      [] sns.kind = "TopicNameStrategyWithSchema" -> Some(sns.schema)
      [] sns.kind = "TopicRecordNameStrategyWithSchema" -> Some(sns.schema)

get_subject_record_message(sns) ==
    CASE sns.kind = "RecordNameStrategy" -> Ok(sns.name)
      [] sns.kind = "TopicNameStrategy" ->
            IF sns.is_key THEN Ok(sns.topic \o "-key") ELSE Ok(sns.topic \o "-value")
      [] sns.kind = "TopicRecordNameStrategy" -> Ok(sns.topic \o "-" \o sns.name)
      [] sns.kind = "RecordNameStrategyWithSchema" ->
            IF ~sns.schema.name.some
            THEN Err(non_retryable_without_cause(
                   "name is mandatory in SuppliedSchema when used in RecordNameStrategyWithSchema"))
            ELSE Ok(sns.schema.name.v)
      [] sns.kind = "TopicNameStrategyWithSchema" ->
            IF sns.is_key THEN Ok(sns.topic \o "-key") ELSE Ok(sns.topic \o "-value")
      [] sns.kind = "TopicRecordNameStrategyWithSchema" ->
            IF ~sns.schema.name.some
            THEN Err(non_retryable_without_cause(NameIsMandatory))
            ELSE Ok(sns.topic \o "-" \o sns.schema.name.v)

get_subject_swapped_suffix(sns) ==
    CASE sns.kind = "RecordNameStrategy" -> Ok(sns.name)
      [] sns.kind = "TopicNameStrategy" ->
            IF sns.is_key THEN Ok(sns.topic \o "-key") ELSE Ok(sns.topic \o "-value")
      [] sns.kind = "TopicRecordNameStrategy" -> Ok(sns.topic \o "-" \o sns.name)
      [] sns.kind = "RecordNameStrategyWithSchema" ->
            IF ~sns.schema.name.some
            THEN Err(non_retryable_without_cause(NameIsMandatory))
            ELSE Ok(sns.schema.name.v)
      [] sns.kind = "TopicNameStrategyWithSchema" ->
            IF sns.is_key THEN Ok(sns.topic \o "-value") ELSE Ok(sns.topic \o "-key")
      [] sns.kind = "TopicRecordNameStrategyWithSchema" ->
            IF ~sns.schema.name.some
            THEN Err(non_retryable_without_cause(NameIsMandatory))
            ELSE Ok(sns.topic \o "-" \o sns.schema.name.v)

\* pub fn get_subject
get_subject(sns) ==
    CASE sns.kind = "RecordNameStrategy" -> Ok(sns.name)
      [] sns.kind = "TopicNameStrategy" ->
            IF sns.is_key THEN Ok(sns.topic \o "-key") ELSE Ok(sns.topic \o "-value")
      [] sns.kind = "TopicRecordNameStrategy" -> Ok(sns.topic \o "-" \o sns.name)
      [] sns.kind = "RecordNameStrategyWithSchema" ->
            IF ~sns.schema.name.some
            THEN Err(non_retryable_without_cause(NameIsMandatory))
            ELSE Ok(sns.schema.name.v)
      [] sns.kind = "TopicNameStrategyWithSchema" ->
            IF sns.is_key THEN Ok(sns.topic \o "-key") ELSE Ok(sns.topic \o "-value")
      [] sns.kind = "TopicRecordNameStrategyWithSchema" ->
            IF ~sns.schema.name.some
            THEN Err(non_retryable_without_cause(NameIsMandatory))
            ELSE Ok(sns.topic \o "-" \o sns.schema.name.v)

(***************************************************************************)
(* serde_json::Value, as far as the protocol reads and writes it. A number *)
(* is PosInt(u64), NegInt(i64 < 0) or a float; an integer is kept as its   *)
(* magnitude in four 16-bit limbs <<m3, m2, m1, m0>>, most significant     *)
(* first.                                                                  *)
(***************************************************************************)
JNull == [t |-> "null"]
JStr(s) == [t |-> "str", s |-> s]
JPos(mag) == [t |-> "pos", mag |-> mag]
JNeg(mag) == [t |-> "neg", mag |-> mag]
JFloat == [t |-> "float"]
JArr(items) == [t |-> "arr", items |-> items]
JObj(map) == [t |-> "obj", map |-> map]

\* a small non-negative integer n < 65536 as a JSON number
JInt(n) == JPos(<<0, 0, 0, n>>)

\* json[key]: Null when json is no object or has no such key
Index(json, key) ==
    IF json.t = "obj" /\ key \in DOMAIN json.map THEN json.map[key] ELSE JNull

as_str(j) == IF j.t = "str" THEN Some(j.s) ELSE None
as_array(j) == IF j.t = "arr" THEN Some(j.items) ELSE None
\* Value::as_u64: only a PosInt
as_u64(j) == IF j.t = "pos" THEN Some(j.mag) ELSE None
\* Value::as_i64: a NegInt, or a PosInt that fits in an i64; the result is
\* kept as sign and magnitude
as_i64(j) ==
    CASE j.t = "neg" -> Some([neg |-> TRUE, mag |-> j.mag])
      [] j.t = "pos" -> IF j.mag[1] < 32768 THEN Some([neg |-> FALSE, mag |-> j.mag])
                        ELSE None
      [] OTHER -> None

u64_as_u32_saturating(mag) ==
    IF mag[1] # 0 \/ mag[2] # 0 THEN U32(65535, 65535) ELSE U32(mag[3], mag[4])

\* `v as u32` of a u64: the low 32 bits
u64_as_u32(mag) == U32(mag[3], mag[4])
\* `v as u32` of an i64: the low 32 bits of the two's complement
i64_as_u32(v) ==
    IF ~v.neg THEN U32(v.mag[3], v.mag[4])
    ELSE U32((65536 - v.mag[3] - (IF v.mag[4] # 0 THEN 1 ELSE 0)) % 65536,
             (65536 - v.mag[4]) % 65536)

\* Display of a u32: decimal digits, computed on the limbs
RECURSIVE U32Text(_)
U32Text(u) ==
    IF u.hi = 0 /\ u.lo < 10 THEN ToString(u.lo)
    ELSE LET mid == (u.hi % 10) * 65536 + u.lo
         IN  U32Text(U32(u.hi \div 10, mid \div 10)) \o ToString(mid % 10)

\* serde_json::from_value::<RegisteredReference>: name and subject strings and
\* a version that fits a u32 are required, other keys are ignored
to_registered_reference(reference) ==
    LET name == Index(reference, "name")
        subject == Index(reference, "subject")
        version == Index(reference, "version")
    IN  IF reference.t # "obj" THEN Err([text |-> "invalid type: expected struct RegisteredReference"])
        ELSE IF "name" \notin DOMAIN reference.map THEN Err([text |-> "missing field name"])
        ELSE IF name.t # "str" THEN Err([text |-> "invalid type: expected a string"])
        ELSE IF "subject" \notin DOMAIN reference.map THEN Err([text |-> "missing field subject"])
        ELSE IF subject.t # "str" THEN Err([text |-> "invalid type: expected a string"])
        ELSE IF "version" \notin DOMAIN reference.map THEN Err([text |-> "missing field version"])
        ELSE IF version.t # "pos" \/ version.mag[1] # 0 \/ version.mag[2] # 0
             THEN Err([text |-> "invalid value: expected u32"])
        ELSE Ok(RegisteredReference(name.s, subject.s, u64_as_u32(version.mag)))

\* v.iter().map(to_registered_reference).collect::<Result<Vec<_>, _>>():
\* the first error, or all the references in order
RECURSIVE CollectReferences(_)
CollectReferences(items) ==
    IF items = <<>> THEN Ok(<<>>)
    ELSE LET head == to_registered_reference(items[1])
         IN  IF head.tag = "Err" THEN head
             ELSE LET rest == CollectReferences(Tail(items))
                  IN  IF rest.tag = "Err" THEN rest ELSE Ok(<<head.v>> \o rest.v)

(***************************************************************************)
(* The HTTP transport (curl) as the protocol sees it. perform_get and      *)
(* perform_post return Err(curl::Error) or Ok(easy), where easy carries    *)
(* the response code (itself Ok or Err) and the collected body; the body   *)
(* is described by what str::from_utf8 and serde_json::from_str make of    *)
(* it.                                                                     *)
(***************************************************************************)
Easy(code, body) == [code |-> code, body |-> body]
BodyNotUtf8 == [utf8 |-> FALSE]
BodyNotJson == [utf8 |-> TRUE, json |-> None]
BodyJson(j) == [utf8 |-> TRUE, json |-> Some(j)]

\* one HTTP call as recorded in `http`: the request, what the transport
\* answered, and whether the response body was read and parsed
HttpCall(method, url, body, outcome, parsed) ==
    [method |-> method, url |-> url, body |-> body, outcome |-> outcome,
     parsed |-> parsed]

to_json_no_code(easy) ==
    IF easy.code.tag = "Err"
    THEN [res |-> Err(retryable_with_cause(easy.code.e,
                        "Encountered error getting http response")),
          parsed |-> FALSE]
    ELSE IF easy.code.v # 200
    THEN [res |-> Err(non_retryable_without_cause("Did not get a 200 response code")),
          parsed |-> FALSE]
    ELSE IF ~easy.body.utf8
    THEN [res |-> Err(non_retryable_with_cause([text |-> "invalid utf-8 sequence"],
                        "Invalid UTF-8 sequence")),
          parsed |-> TRUE]
    ELSE IF ~easy.body.json.some
    THEN [res |-> Err(non_retryable_with_cause([text |-> "expected value at line 1 column 1"],
                        "Invalid json string")),
          parsed |-> TRUE]
    ELSE [res |-> Ok(easy.body.json.v), parsed |-> TRUE]

\* fn to_json; `parsed` tells whether lines 441-457 (reading the body) ran
to_json(easy) ==
    IF easy.code.tag = "Err"
    THEN [res |-> Err(retryable_with_cause(easy.code.e,
                        "Encountered error getting http response")),
          parsed |-> FALSE]
    ELSE IF easy.code.v # 200
    THEN [res |-> Err(non_retryable_without_cause(
                        "Did not get a 200 response code but " \o ToString(easy.code.v)
                            \o " instead")),
          parsed |-> FALSE]
    ELSE IF ~easy.body.utf8
    THEN [res |-> Err(non_retryable_with_cause([text |-> "invalid utf-8 sequence"],
                        "Invalid UTF-8 sequence")),
          parsed |-> TRUE]
    ELSE IF ~easy.body.json.some
    THEN [res |-> Err(non_retryable_with_cause([text |-> "expected value at line 1 column 1"],
                        "Invalid json string")),
          parsed |-> TRUE]
    ELSE [res |-> Ok(easy.body.json.v), parsed |-> TRUE]

(***************************************************************************)
(* Value::to_string. serde_json's Map is a BTreeMap, so an object's keys   *)
(* come out in sorted order; KeyOrder lists the keys the protocol writes,  *)
(* sorted. The strings written here hold nothing that needs escaping.      *)
(***************************************************************************)
KeyOrder == <<"name", "references", "schema", "schemaType", "subject", "version">>

RECURSIVE JoinWith(_, _)
JoinWith(texts, sep) ==
    IF texts = <<>> THEN ""
    ELSE IF Len(texts) = 1 THEN texts[1]
    ELSE texts[1] \o sep \o JoinWith(Tail(texts), sep)

Quoted(s) == "\"" \o s \o "\""

RECURSIVE JsonText(_)
JsonText(j) ==
    CASE j.t = "null" -> "null"
      [] j.t = "str" -> Quoted(j.s)
      [] j.t = "pos" -> U32Text(u64_as_u32(j.mag))
      [] j.t = "arr" -> "[" \o JoinWith([i \in 1..Len(j.items) |-> JsonText(j.items[i])], ",") \o "]"
      [] j.t = "obj" ->
            LET keys == SelectSeq(KeyOrder, LAMBDA k : k \in DOMAIN j.map)
            IN  "{" \o JoinWith([i \in 1..Len(keys) |->
                                   Quoted(keys[i]) \o ":" \o JsonText(j.map[keys[i]])], ",")
                    \o "}"

\* json!(x) for x: &RegisteredReference (derive(Serialize))
ReferenceJson(x) ==
    JObj([name |-> JStr(x.name), subject |-> JStr(x.subject),
          version |-> JPos(<<0, 0, x.version.hi, x.version.lo>>)])

get_body_always_references(schema_type, schema, references) ==
    JsonText(JObj([schema |-> JStr(schema), schemaType |-> JStr(schema_type),
                   references |-> JArr([i \in 1..Len(references) |->
                                          ReferenceJson(references[i])])]))

\* fn get_body
get_body(schema_type, schema, references) ==
    LET root_element == [schema |-> JStr(schema), schemaType |-> JStr(schema_type)]
        values == [i \in 1..Len(references) |-> ReferenceJson(references[i])]
    IN  IF references # <<>>
        THEN JsonText(JObj([k \in {"schema", "schemaType", "references"} |->
                              IF k = "references" THEN JArr(values) ELSE root_element[k]]))
        ELSE JsonText(JObj(root_element))

(***************************************************************************)
(* Registry protocol: schema_registry.rs 113-163, 216-399. Every function  *)
(* that performs an HTTP call takes the transport's answer to that call    *)
(* as `outcome` and returns [res |-> its Result, io |-> the call made].    *)
(***************************************************************************)
schema_type_from_json_no_default(json) ==
    LET st == as_str(Index(json, "schemaType"))
    IN  IF ~st.some THEN Other("")
        ELSE CASE st.v = "AVRO" -> Avro
               [] st.v = "PROTOBUF" -> Protobuf
               [] st.v = "JSON" -> Json
               [] OTHER -> Other(st.v)

schema_type_from_json(json) ==
    LET st == as_str(Index(json, "schemaType"))
    IN  IF ~st.some THEN Avro
        ELSE CASE st.v = "AVRO" -> Avro
               [] st.v = "PROTOBUF" -> Protobuf
               [] st.v = "JSON" -> Json
               [] OTHER -> Other(st.v)

schema_from_json_response_id(json, id) ==
    LET id_from_response == as_u64(Index(json, "id"))
        schema == as_str(Index(json, "schema"))
        refs == as_array(Index(json, "references"))
        references == IF refs.some THEN CollectReferences(refs.v) ELSE Ok(<<>>)
    IN  IF ~id.some /\ ~id_from_response.some
        THEN Err(SRCError_new("Could not get id from response", None, FALSE))
        ELSE IF ~schema.some
        THEN Err(non_retryable_without_cause("Could not get raw schema from response"))
        ELSE IF references.tag = "Err"
        THEN Err(non_retryable_with_cause(references.e, "Error parsing reference"))
        ELSE Ok(RegisteredSchema(IF id_from_response.some
                                 THEN u64_as_u32(id_from_response.v) ELSE id.v,
                                 schema_type_from_json(json), schema.v, references.v))

schema_from_json_schema_first(json, id) ==
    LET id_from_response == as_u64(Index(json, "id"))
        schema == as_str(Index(json, "schema"))
        refs == as_array(Index(json, "references"))
        references == IF refs.some THEN CollectReferences(refs.v) ELSE Ok(<<>>)
    IN  IF ~schema.some
        THEN Err(non_retryable_without_cause("Could not get raw schema from response"))
        ELSE IF ~id.some /\ ~id_from_response.some
        THEN Err(SRCError_new("Could not get id from response", None, FALSE))
        ELSE IF references.tag = "Err"
        THEN Err(non_retryable_with_cause(references.e, "Error parsing reference"))
        ELSE Ok(RegisteredSchema(IF id.some THEN id.v ELSE u64_as_u32(id_from_response.v),
                                 schema_type_from_json(json), schema.v, references.v))

\* fn schema_from_url, lines 228-272: the response is a 200 with JSON `json`
schema_from_json(json, id) ==
    LET id_from_response == as_u64(Index(json, "id"))
        schema == as_str(Index(json, "schema"))
        refs == as_array(Index(json, "references"))
        references == IF refs.some THEN CollectReferences(refs.v) ELSE Ok(<<>>)
    IN  IF ~id.some /\ ~id_from_response.some
        THEN Err(SRCError_new("Could not get id from response", None, FALSE))
        ELSE IF ~schema.some
        THEN Err(non_retryable_without_cause("Could not get raw schema from response"))
        ELSE IF references.tag = "Err"
        THEN Err(non_retryable_with_cause(references.e, "Error parsing reference"))
        ELSE Ok(RegisteredSchema(IF id.some THEN id.v ELSE u64_as_u32(id_from_response.v),
                                 schema_type_from_json(json), schema.v, references.v))

\* fn schema_from_url
schema_from_url(url, id, outcome) ==
    IF outcome.tag = "Err"
    THEN [res |-> Err(retryable_with_cause(outcome.e,
                        "error performing get to schema registry")),
          io |-> HttpCall("GET", url, None, outcome, FALSE)]
    ELSE LET json == to_json(outcome.v)
         IN  [res |-> IF json.res.tag = "Err" THEN json.res
                      ELSE schema_from_json(json.res.v, id),
              io |-> HttpCall("GET", url, None, outcome, json.parsed)]

\* fn post_and_get_id
post_and_get_id(url, body, outcome) ==
    IF outcome.tag = "Err"
    THEN [res |-> Err(retryable_with_cause(outcome.e,
                        "error performing post to schema registry to get id")),
          io |-> HttpCall("POST", url, Some(body), outcome, FALSE)]
    ELSE LET json == to_json(outcome.v)
             id == IF json.res.tag = "Ok" THEN as_i64(Index(json.res.v, "id")) ELSE None
         IN  [res |-> IF json.res.tag = "Err" THEN json.res
                      ELSE IF id.some THEN Ok(i64_as_u32(id.v))
                      ELSE Err(non_retryable_without_cause("Could not get id from response")),
              io |-> HttpCall("POST", url, Some(body), outcome, json.parsed)]

post_and_get_version_reads_id(url, body, outcome) ==
    IF outcome.tag = "Err"
    THEN [res |-> Err(retryable_with_cause(outcome.e,
                        "error performing post to schema registry to get version")),
          io |-> HttpCall("POST", url, Some(body), outcome, FALSE)]
    ELSE LET json == to_json(outcome.v)
             version == IF json.res.tag = "Ok" THEN as_i64(Index(json.res.v, "id"))
                        ELSE None
         IN  [res |-> IF json.res.tag = "Err" THEN json.res
                      ELSE IF version.some THEN Ok(i64_as_u32(version.v))
                      ELSE Err(non_retryable_without_cause(
                                 "Could not get version from response")),
              io |-> HttpCall("POST", url, Some(body), outcome, json.parsed)]

\* fn post_and_get_version
post_and_get_version(url, body, outcome) ==
    IF outcome.tag = "Err"
    THEN [res |-> Err(retryable_with_cause(outcome.e,
                        "error performing post to schema registry to get version")),
          io |-> HttpCall("POST", url, Some(body), outcome, FALSE)]
    ELSE LET json == to_json(outcome.v)
             version == IF json.res.tag = "Ok" THEN as_i64(Index(json.res.v, "version"))
                        ELSE None
         IN  [res |-> IF json.res.tag = "Err" THEN json.res
                      ELSE IF version.some THEN Ok(i64_as_u32(version.v))
                      ELSE Err(non_retryable_without_cause(
                                 "Could not get version from response")),
              io |-> HttpCall("POST", url, Some(body), outcome, json.parsed)]

(***************************************************************************)
(* post_schema and post_reference call post_reference recursively. The     *)
(* calls still running are the frames of `stack`, the innermost last. A    *)
(* frame holds the function's arguments, its iterator position `next` in   *)
(* the node's references, the RegisteredReferences collected so far, and   *)
(* which POST it makes next once the iterator is exhausted.                *)
(***************************************************************************)
\* post_schema, lines 283-288
schema_type_text(schema_type) ==
    CASE schema_type.t = "Avro" -> "AVRO"
      [] schema_type.t = "Protobuf" -> "PROTOBUF"
      [] schema_type.t = "Json" -> "JSON"
      [] schema_type.t = "Other" -> schema_type.v

SchemaFrame(subject, schema) ==
    [fn |-> "post_schema", schema_type |-> schema_type_text(schema.schema_type),
     subject |-> subject, node |-> schema, next |-> 1, references |-> <<>>, at |-> "id"]

ReferenceFrame(schema_type, reference) ==
    [fn |-> "post_reference", schema_type |-> schema_type,
     subject |-> reference.subject, node |-> reference, next |-> 1,
     references |-> <<>>, at |-> "id"]

RECURSIVE Descend_last_first(_)
Descend_last_first(st) ==
    LET top == st[Len(st)]
        n == Len(top.node.references)
    IN  IF top.next <= n
        THEN Descend_last_first(Append(st, ReferenceFrame(top.schema_type,
                                            top.node.references[n + 1 - top.next])))
        ELSE st

\* run the innermost call up to its next POST: while its iterator has a
\* reference left, that reference's post_reference is called
RECURSIVE Descend(_)
Descend(st) ==
    LET top == st[Len(st)]
    IN  IF top.next <= Len(top.node.references)
        THEN Descend(Append(st, ReferenceFrame(top.schema_type,
                                               top.node.references[top.next])))
        ELSE st

\* the error the outermost call returns when the innermost returns Err(e):
\* each caller gets Err from collect() and wraps it (lines 296-301, 379-384)
RECURSIVE Unwind(_, _)
Unwind(e, callers) ==
    IF callers = 0 THEN e
    ELSE Unwind(non_retryable_with_cause(e, "Error posting a reference"), callers - 1)

ReturnReference_prepends(st, registered) ==
    LET rest == SubSeq(st, 1, Len(st) - 1)
        caller == rest[Len(rest)]
    IN  Descend([rest EXCEPT ![Len(rest)] =
                    [caller EXCEPT !.references = <<registered>> \o caller.references,
                                   !.next = caller.next + 1]])

\* the innermost post_reference returned Ok(registered) to its caller
ReturnReference(st, registered) ==
    LET rest == SubSeq(st, 1, Len(st) - 1)
        caller == rest[Len(rest)]
    IN  Descend([rest EXCEPT ![Len(rest)] =
                    [caller EXCEPT !.references = Append(caller.references, registered),
                                   !.next = caller.next + 1]])

(***************************************************************************)
(* Inputs of the model.                                                    *)
(***************************************************************************)
\* most SuppliedReference nodes in the references of one schema or reference
MaxRefNodes == 3

SchemaRegistryUrl == "http://localhost:8081"
Topics == {"orders", "t"}
RecordNames == {"Order", "com.acme.Order"}
SchemaText == "message Order {}"
RequestIds == {U32(0, 7), U32(0, 8)}

\* the forests of SuppliedReferences with exactly n nodes; a node is named
\* after its position: the k-th reference under `path` is path.k
RECURSIVE ForestsOf(_, _, _)
ForestsOf(n, path, k) ==
    IF n = 0 THEN {<<>>}
    ELSE UNION {
           {<<SuppliedReference("ref" \o path \o "." \o ToString(k),
                                "sub" \o path \o "." \o ToString(k),
                                "message Ref" \o path \o "." \o ToString(k) \o " {}",
                                c)>> \o f :
              c \in ForestsOf(m - 1, path \o "." \o ToString(k), 1),
              f \in ForestsOf(n - m, path, k + 1)} : m \in 1..n}

Forests == UNION {ForestsOf(n, "", 1) : n \in 0..MaxRefNodes}

\* schemas without references in every type and name; schemas with references
\* as Protobuf, with and without a name
SuppliedSchemas ==
    {SuppliedSchema(n, t, SchemaText, <<>>) :
        n \in {None} \cup {Some(rn) : rn \in RecordNames}, t \in SchemaTypes}
    \cup {SuppliedSchema(n, Protobuf, SchemaText, f) :
            n \in {None, Some("Order")}, f \in Forests}

BareStrategies ==
    {RecordNameStrategy(rn) : rn \in RecordNames}
        \cup {TopicNameStrategy(t, k) : t \in Topics, k \in BOOLEAN}
        \cup {TopicRecordNameStrategy(t, rn) : t \in Topics, rn \in RecordNames}

SchemaStrategies ==
    {RecordNameStrategyWithSchema(s) : s \in SuppliedSchemas}
        \cup {TopicNameStrategyWithSchema(t, k, s) :
                t \in Topics, k \in BOOLEAN, s \in SuppliedSchemas}
        \cup {TopicRecordNameStrategyWithSchema(t, s) : t \in Topics, s \in SuppliedSchemas}

Strategies == BareStrategies \cup SchemaStrategies

\* what the transport may answer
CurlError == [text |-> "[7] Couldn't connect to server"]

\* a JSON object with the keys that are present
Object(fields) ==
    JObj([k \in {key \in DOMAIN fields : fields[key].some} |-> fields[k].v])

GoodReference == JObj([name |-> JStr("ref.1"), subject |-> JStr("sub.1"), version |-> JInt(2)])
BadReference == JObj([name |-> JStr("ref.1"), subject |-> JStr("sub.1")])

Envelopes ==
    {Object([id |-> i, schemaType |-> st, schema |-> sc, references |-> r]) :
        i \in {None, Some(JInt(7)), Some(JInt(9)), Some(JStr("7"))},
        st \in {None, Some(JStr("AVRO")), Some(JStr("PROTOBUF")), Some(JStr("JSON")),
                Some(JStr("XML")), Some(JInt(1))},
        sc \in {None, Some(JStr(SchemaText))},
        r \in {None, Some(JArr(<<>>)), Some(JArr(<<GoodReference>>)),
               Some(JArr(<<GoodReference, BadReference>>))}}

GoodEnvelope ==
    Object([id |-> Some(JInt(7)), schemaType |-> Some(JStr("PROTOBUF")),
            schema |-> Some(JStr(SchemaText)), references |-> None])

FailedResponses(body) ==
    {Err(CurlError), Ok(Easy(Err(CurlError), BodyNotJson)),
     Ok(Easy(Ok(404), body)), Ok(Easy(Ok(500), body)),
     Ok(Easy(Ok(200), BodyNotUtf8)), Ok(Easy(Ok(200), BodyNotJson)),
     Ok(Easy(Ok(200), BodyJson(JArr(<<>>))))}

\* numbers at and beyond the edges of a u32: 2^32 - 1, 2^32 + 7, 2^63 and -1
WideNumbers ==
    {JPos(<<0, 0, 65535, 65535>>), JPos(<<0, 1, 0, 7>>), JPos(<<32768, 0, 0, 0>>),
     JNeg(<<0, 0, 0, 1>>)}

\* GoodEnvelope with such a number as id
WideEnvelopes ==
    {Object([id |-> Some(w), schemaType |-> Some(JStr("PROTOBUF")),
             schema |-> Some(JStr(SchemaText)), references |-> None]) : w \in WideNumbers}

GetOutcomes ==
    FailedResponses(BodyJson(GoodEnvelope))
        \cup {Ok(Easy(Ok(200), BodyJson(e))) : e \in Envelopes \cup WideEnvelopes}

\* the answers to the POST for the id: a 200 carries {"id": 5}, or lacks the id
IdPostOutcomes ==
    FailedResponses(BodyJson(Object([id |-> Some(JInt(5)), version |-> None])))
        \cup {Ok(Easy(Ok(200), BodyJson(Object([id |-> i, version |-> v])))) :
                i \in {None, Some(JInt(5))}, v \in {None}}
        \cup {Ok(Easy(Ok(200), BodyJson(Object([id |-> None, version |-> Some(JInt(1))]))))}

\* the answers to the POST for the version: a 200 carries the id and version 1
\* or 2, or lacks the version
VersionPostOutcomes ==
    FailedResponses(BodyJson(Object([id |-> Some(JInt(5)), version |-> Some(JInt(1))])))
        \cup {Ok(Easy(Ok(200), BodyJson(Object([id |-> Some(JInt(5)), version |-> v])))) :
                v \in {None, Some(JInt(1)), Some(JInt(2))}}

\* the answers with a number of WideNumbers as id or version; they are given
\* to the POSTs of an operation whose schema or reference has no references
WideIdPostOutcomes ==
    {Ok(Easy(Ok(200), BodyJson(Object([id |-> Some(w), version |-> None])))) :
        w \in WideNumbers}
WideVersionPostOutcomes ==
    {Ok(Easy(Ok(200), BodyJson(Object([id |-> Some(JInt(5)), version |-> Some(w)])))) :
        w \in WideNumbers}

\* the operation running in st posts a schema or reference without references
Flat(st) == Len(st) = 1 /\ st[1].node.references = <<>>

(***************************************************************************)
(* The registry client as a state machine: one caller, one operation. An   *)
(* operation that makes a single HTTP call is one action; post_schema and  *)
(* post_reference advance one POST per action.                             *)
(***************************************************************************)
Init ==
    /\ codecIn = [kind |-> "raw", bytes |-> None]
    /\ codecWire = None
    /\ codecOut = NotRun
    /\ call = Idle
    /\ stack = <<>>
    /\ result = NotReturned
    /\ http = <<>>
    /\ NoError
    /\ NewDecoders

\* pub fn get_subject
GetSubject ==
    /\ call = Idle
    /\ \E sns \in Strategies :
          /\ call' = [op |-> "get_subject", strategy |-> sns]
          /\ result' = get_subject(sns)
    /\ UNCHANGED <<stack, http, codecVars, errorVars, decoderVars>>

\* pub fn get_schema_by_id
GetSchemaById ==
    /\ call = Idle
    /\ \E id \in RequestIds, outcome \in GetOutcomes :
          LET url == SchemaRegistryUrl \o "/schemas/ids/" \o U32Text(id)
              r == schema_from_url(url, Some(id), outcome)
          IN  /\ call' = [op |-> "get_schema_by_id", id |-> id]
              /\ result' = r.res
              /\ http' = Append(http, r.io)
    /\ UNCHANGED <<stack, codecVars, errorVars, decoderVars>>

\* pub fn get_schema_by_subject
GetSchemaBySubject ==
    /\ call = Idle
    /\ \E sns \in Strategies :
          LET subject == get_subject(sns)
              schema == get_schema(sns)
          IN  /\ call' = [op |-> "get_schema_by_subject", strategy |-> sns]
              /\ IF subject.tag = "Err"
                 THEN /\ result' = subject
                      /\ UNCHANGED <<stack, http>>
                 ELSE IF ~schema.some
                 THEN \E outcome \in GetOutcomes :
                        LET url == SchemaRegistryUrl \o "/subjects/" \o subject.v
                                        \o "/versions/latest"
                            r == schema_from_url(url, None, outcome)
                        IN  /\ result' = r.res
                            /\ http' = Append(http, r.io)
                            /\ UNCHANGED stack
                 ELSE /\ stack' = Descend(<<SchemaFrame(subject.v, schema.v)>>)
                      /\ UNCHANGED <<result, http>>
    /\ UNCHANGED <<codecVars, errorVars, decoderVars>>

\* pub fn get_referenced_schema
GetReferencedSchema ==
    /\ call = Idle
    /\ \E registered_reference \in
            {RegisteredReference("ref.1", "sub.1", v) : v \in {U32(0, 2), U32(1, 0)}},
          outcome \in GetOutcomes :
          LET url == SchemaRegistryUrl \o "/subjects/" \o registered_reference.subject
                          \o "/versions/" \o U32Text(registered_reference.version)
              r == schema_from_url(url, None, outcome)
          IN  /\ call' = [op |-> "get_referenced_schema",
                          registered_reference |-> registered_reference]
              /\ result' = r.res
              /\ http' = Append(http, r.io)
    /\ UNCHANGED <<stack, codecVars, errorVars, decoderVars>>

\* pub fn post_schema, up to its first POST
PostSchema ==
    /\ call = Idle
    /\ \E subject \in {"orders-value"}, schema \in SuppliedSchemas :
          /\ call' = [op |-> "post_schema", subject |-> subject, schema |-> schema]
          /\ stack' = Descend(<<SchemaFrame(subject, schema)>>)
    /\ UNCHANGED <<result, http, codecVars, errorVars, decoderVars>>

\* fn post_reference, up to its first POST
PostReference ==
    /\ call = Idle
    /\ \E schema_type \in {"AVRO", "PROTOBUF"}, f \in Forests \ {<<>>} :
          /\ call' = [op |-> "post_reference", schema_type |-> schema_type,
                      reference |-> f[1]]
          /\ stack' = Descend(<<ReferenceFrame(schema_type, f[1])>>)
    /\ UNCHANGED <<result, http, codecVars, errorVars, decoderVars>>

\* post_schema lines 303-311, post_reference lines 386-391: the innermost
\* call has registered all its references and posts itself for its id
PostAndGetId ==
    /\ stack # <<>>
    /\ stack[Len(stack)].at = "id"
    /\ \E outcome \in IdPostOutcomes
                        \cup (IF Flat(stack) THEN WideIdPostOutcomes ELSE {}) :
          LET top == stack[Len(stack)]
              url == SchemaRegistryUrl \o "/subjects/" \o top.subject \o "/versions"
              body == get_body(top.schema_type, top.node.schema, top.references)
              r == post_and_get_id(url, body, outcome)
          IN  /\ http' = Append(http, r.io)
              /\ IF r.res.tag = "Err"
                 THEN /\ result' = Err(Unwind(r.res.e, Len(stack) - 1))
                      /\ stack' = <<>>
                 ELSE IF top.fn = "post_schema"
                 THEN /\ result' = Ok(RegisteredSchema(r.res.v, top.node.schema_type,
                                                       top.node.schema, top.references))
                      /\ stack' = <<>>
                 ELSE /\ stack' = [stack EXCEPT ![Len(stack)].at = "version"]
                      /\ UNCHANGED result
    /\ UNCHANGED <<call, codecVars, errorVars, decoderVars>>

PostAndGetVersion_skips_failed ==
    /\ stack # <<>>
    /\ stack[Len(stack)].at = "version"
    /\ \E outcome \in VersionPostOutcomes
                        \cup (IF Flat(stack) THEN WideVersionPostOutcomes ELSE {}) :
          LET top == stack[Len(stack)]
              version_url == SchemaRegistryUrl \o "/subjects/" \o top.subject
              body == get_body(top.schema_type, top.node.schema, top.references)
              r == post_and_get_version(version_url, body, outcome)
              registered == RegisteredReference(top.node.name, top.node.subject, r.res.v)
              rest == SubSeq(stack, 1, Len(stack) - 1)
          IN  /\ http' = Append(http, r.io)
              /\ IF Len(stack) = 1
                 THEN /\ result' = IF r.res.tag = "Err" THEN r.res ELSE Ok(registered)
                      /\ stack' = <<>>
                 ELSE IF r.res.tag = "Err"
                 THEN /\ stack' = Descend([rest EXCEPT ![Len(rest)].next = @ + 1])
                      /\ UNCHANGED result
                 ELSE /\ stack' = ReturnReference(stack, registered)
                      /\ UNCHANGED result
    /\ UNCHANGED <<call, codecVars, errorVars, decoderVars>>

\* post_reference lines 392-398: the second POST, for the version
PostAndGetVersion ==
    /\ stack # <<>>
    /\ stack[Len(stack)].at = "version"
    /\ \E outcome \in VersionPostOutcomes
                        \cup (IF Flat(stack) THEN WideVersionPostOutcomes ELSE {}) :
          LET top == stack[Len(stack)]
              version_url == SchemaRegistryUrl \o "/subjects/" \o top.subject
              body == get_body(top.schema_type, top.node.schema, top.references)
              r == post_and_get_version(version_url, body, outcome)
              registered == RegisteredReference(top.node.name, top.node.subject, r.res.v)
          IN  /\ http' = Append(http, r.io)
              /\ IF r.res.tag = "Err"
                 THEN /\ result' = Err(Unwind(r.res.e, Len(stack) - 1))
                      /\ stack' = <<>>
                 ELSE IF Len(stack) = 1
                 THEN /\ result' = Ok(registered)
                      /\ stack' = <<>>
                 ELSE /\ stack' = ReturnReference(stack, registered)
                      /\ UNCHANGED result
    /\ UNCHANGED <<call, codecVars, errorVars, decoderVars>>

Next ==
    \/ GetSubject
    \/ GetSchemaById
    \/ GetSchemaBySubject
    \/ GetReferencedSchema
    \/ PostSchema
    \/ PostReference
    \/ PostAndGetId
    \/ PostAndGetVersion

Spec == Init /\ [][Next]_vars

(***************************************************************************)
(* Vocabulary of the properties below.                                     *)
(***************************************************************************)
\* the text `part` occurs in the text `whole`
Contains(whole, part) ==
    \E i \in 1..(Len(whole) - Len(part) + 1) : SubSeq(whole, i, i + Len(part) - 1) = part

BareKinds == {"RecordNameStrategy", "TopicNameStrategy", "TopicRecordNameStrategy"}
SchemaKinds == {"RecordNameStrategyWithSchema", "TopicNameStrategyWithSchema",
                "TopicRecordNameStrategyWithSchema"}
FetchOps == {"get_schema_by_id", "get_schema_by_subject", "get_referenced_schema"}

\* the HTTP call made last
LastCall == http[Len(http)]
\* the last call was answered with an HTTP status
Answered == http # <<>> /\ LastCall.outcome.tag = "Ok" /\ LastCall.outcome.v.code.tag = "Ok"
\* the last call was answered 200 with a JSON body
AnsweredJson ==
    /\ Answered
    /\ LastCall.outcome.v.code.v = 200
    /\ LastCall.outcome.v.body.utf8
    /\ LastCall.outcome.v.body.json.some
LastJson == LastCall.outcome.v.body.json.v

(***************************************************************************)
(* C4. get_subject derives the subject from the strategy alone:            *)
(* RecordName(name) -> name; TopicName(topic, is_key) -> topic-key or      *)
(* topic-value; TopicRecordName(topic, name) -> topic-name; a WithSchema   *)
(* variant whose schema has a name gives the subject of the bare variant   *)
(* with the same topic, is_key and name.                                   *)
(***************************************************************************)
C4_SubjectFor ==
    call.op = "get_subject" =>
        LET sns == call.strategy
        IN  CASE sns.kind = "RecordNameStrategy" -> result = Ok(sns.name)
              [] sns.kind = "TopicNameStrategy" ->
                    result = Ok(sns.topic \o (IF sns.is_key THEN "-key" ELSE "-value"))
              [] sns.kind = "TopicRecordNameStrategy" ->
                    result = Ok(sns.topic \o "-" \o sns.name)
              [] sns.kind = "RecordNameStrategyWithSchema" ->
                    sns.schema.name.some => result = Ok(sns.schema.name.v)
              [] sns.kind = "TopicNameStrategyWithSchema" ->
                    sns.schema.name.some =>
                        result = Ok(sns.topic \o (IF sns.is_key THEN "-key" ELSE "-value"))
              [] sns.kind = "TopicRecordNameStrategyWithSchema" ->
                    sns.schema.name.some =>
                        result = Ok(sns.topic \o "-" \o sns.schema.name.v)

C4_Witness ==
    /\ call.op = "get_subject"
    /\ call.strategy.kind = "TopicNameStrategyWithSchema"
    /\ call.strategy.topic = "orders"
    /\ call.strategy.is_key
    /\ call.strategy.schema.name = Some("Order")
    /\ result = Ok("orders-key")

(***************************************************************************)
(* C5. For RecordNameStrategyWithSchema and                                *)
(* TopicRecordNameStrategyWithSchema with a schema that has no name,       *)
(* get_subject returns the error (message "name is mandatory in            *)
(* SuppliedSchema when used in TopicRecordNameStrategyWithSchema", no      *)
(* cause, retriable = false, cached = false), and get_schema_by_subject    *)
(* returns that error without any GET or POST.                             *)
(***************************************************************************)
C5_NameMandatory ==
    (/\ call.op \in {"get_subject", "get_schema_by_subject"}
     /\ call.strategy.kind \in {"RecordNameStrategyWithSchema",
                                "TopicRecordNameStrategyWithSchema"}
     /\ ~call.strategy.schema.name.some)
        => /\ result = Err([error |-> "name is mandatory in SuppliedSchema when used in TopicRecordNameStrategyWithSchema",
                            cause |-> None, retriable |-> FALSE, cached |-> FALSE])
           /\ http = <<>>
           /\ stack = <<>>

C5_Witness ==
    /\ call.op = "get_schema_by_subject"
    /\ call.strategy.kind = "RecordNameStrategyWithSchema"
    /\ ~call.strategy.schema.name.some
    /\ Len(call.strategy.schema.references) = 2
    /\ result.tag = "Err"
    /\ http = <<>>

(***************************************************************************)
(* C6. get_schema_by_subject chooses by the strategy alone: a strategy     *)
(* without schema makes exactly one GET, to                                *)
(* {base}/subjects/{subject}/versions/latest, and no POST; a WithSchema    *)
(* strategy makes only POSTs, never a GET; get_schema returns a schema     *)
(* exactly for the three WithSchema variants.                              *)
(***************************************************************************)
C6_LookupOrRegister ==
    call.op = "get_schema_by_subject" =>
        LET sns == call.strategy
        IN  /\ sns.kind \in BareKinds =>
                /\ Len(http) = 1
                /\ http[1].method = "GET"
                /\ http[1].url = SchemaRegistryUrl \o "/subjects/" \o get_subject(sns).v
                                    \o "/versions/latest"
                /\ stack = <<>>
                /\ result # NotReturned
            /\ sns.kind \in SchemaKinds =>
                /\ \A i \in 1..Len(http) : http[i].method = "POST"
                /\ (result = NotReturned /\ get_subject(sns).tag = "Ok") =>
                      (stack # <<>> /\ stack[1].fn = "post_schema")
            /\ get_schema(sns).some <=> sns.kind \in SchemaKinds
            /\ sns.kind \in SchemaKinds => get_schema(sns) = Some(sns.schema)

C6_Witness ==
    /\ call.op = "get_schema_by_subject"
    /\ call.strategy.kind = "TopicNameStrategyWithSchema"
    /\ Len(http) = 3
    /\ \A i \in 1..3 : http[i].method = "POST"
    /\ result.tag = "Ok"

(***************************************************************************)
(* C7 (as claimed). get_schema_by_id takes the id of the returned schema   *)
(* from the `id` field of the response, and falls back to the requested id *)
(* only when the response has no such field.                               *)
(***************************************************************************)
C7_Original ==
    (call.op = "get_schema_by_id" /\ result.tag = "Ok") =>
        result.v.id = IF as_u64(Index(LastJson, "id")).some
                      THEN u64_as_u32(as_u64(Index(LastJson, "id")).v)
                      ELSE call.id

(***************************************************************************)
(* C7 (amended). get_schema_by_id always takes the id of the returned      *)
(* schema from the requested id; the response's `id` field is not read,    *)
(* whether it is absent, equal, different or not a number.                 *)
(***************************************************************************)
C7_Amended ==
    (call.op = "get_schema_by_id" /\ AnsweredJson) =>
        /\ result.tag = "Ok" => result.v.id = call.id
        /\ result = schema_from_url(LastCall.url, Some(call.id),
                        Ok(Easy(Ok(200), BodyJson(
                            IF LastJson.t = "obj"
                            THEN JObj([k \in DOMAIN LastJson.map \ {"id"} |-> LastJson.map[k]])
                            ELSE LastJson)))).res

C7_Witness ==
    /\ call.op = "get_schema_by_id"
    /\ call.id = U32(0, 7)
    /\ AnsweredJson
    /\ Index(LastJson, "id") = JInt(9)
    /\ result.tag = "Ok"
    /\ result.v.id = U32(0, 7)

(***************************************************************************)
(* C8. A GET answered 200 with a JSON object: when the fetch returns a     *)
(* schema, its schema_type is Avro / Protobuf / Json for "AVRO" /          *)
(* "PROTOBUF" / "JSON", Other(s) for any other string s and Avro for an    *)
(* absent schemaType, and its references are empty for an absent           *)
(* `references`; with a `schema` string, no `references` and an id (the    *)
(* requested one, or a number in the response) the fetch does return a     *)
(* schema; an absent `schema` gives a non-retryable error. A lookup of id  *)
(* 7 answered {id: 7, schema, schemaType: "PROTOBUF"} gives                *)
(* RegisteredSchema{id: 7, schema_type: Protobuf, references: []}.         *)
(***************************************************************************)
C8_Envelope ==
    (/\ call.op \in FetchOps
     /\ AnsweredJson
     /\ LastCall.method = "GET"
     /\ LastJson.t = "obj")
        => LET m == LastJson.map
               keys == DOMAIN m
           IN  /\ result.tag = "Ok" =>
                    /\ "schemaType" \notin keys => result.v.schema_type = [t |-> "Avro"]
                    /\ ("schemaType" \in keys /\ m.schemaType.t = "str") =>
                          result.v.schema_type =
                              CASE m.schemaType.s = "AVRO" -> [t |-> "Avro"]
                                [] m.schemaType.s = "PROTOBUF" -> [t |-> "Protobuf"]
                                [] m.schemaType.s = "JSON" -> [t |-> "Json"]
                                [] OTHER -> [t |-> "Other", v |-> m.schemaType.s]
                    /\ "references" \notin keys => result.v.references = <<>>
                    /\ result.v.schema = m.schema.s
               /\ ("schema" \in keys /\ m.schema.t = "str" /\ "references" \notin keys
                     /\ (call.op = "get_schema_by_id" \/ ("id" \in keys /\ m.id.t = "pos")))
                    => result.tag = "Ok"
               /\ "schema" \notin keys => (result.tag = "Err" /\ ~result.e.retriable)
               /\ (call.op = "get_schema_by_id" /\ call.id = U32(0, 7)
                     /\ m = [id |-> JInt(7), schema |-> JStr(SchemaText),
                             schemaType |-> JStr("PROTOBUF")])
                    => result = Ok([id |-> U32(0, 7), schema_type |-> [t |-> "Protobuf"],
                                    schema |-> SchemaText, references |-> <<>>])

C8_Witness ==
    /\ call.op = "get_schema_by_id"
    /\ call.id = U32(0, 7)
    /\ AnsweredJson
    /\ LastJson = GoodEnvelope
    /\ result.tag = "Ok"
    /\ result.v.schema_type = Protobuf
    /\ result.v.references = <<>>

(***************************************************************************)
(* C9 (as claimed). Whenever an HTTP call of any operation is answered     *)
(* with a status other than 200, the operation returns an error with       *)
(* retriable = false whose message contains the status code, and the       *)
(* response body is not parsed.                                            *)
(***************************************************************************)
C9_Original ==
    (Answered /\ LastCall.outcome.v.code.v # 200) =>
        /\ result.tag = "Err"
        /\ ~result.e.retriable
        /\ Contains(result.e.error, ToString(LastCall.outcome.v.code.v))
        /\ ~LastCall.parsed

\* the subject the operation itself posts to
OwnSubject ==
    CASE call.op = "post_schema" -> call.subject
      [] call.op = "post_reference" -> call.reference.subject
      [] call.op = "get_schema_by_subject" -> get_subject(call.strategy).v
      [] OTHER -> ""

\* the last call is a POST made for a reference below the operation's own
\* schema or reference
NestedCall ==
    /\ LastCall.method = "POST"
    /\ LastCall.url \notin {SchemaRegistryUrl \o "/subjects/" \o OwnSubject \o "/versions",
                            SchemaRegistryUrl \o "/subjects/" \o OwnSubject}

(***************************************************************************)
(* C9 (amended). Whenever an HTTP call of any operation is answered with a *)
(* status other than 200, the operation returns an error with retriable =  *)
(* false and the response body is not parsed. The status code is in the    *)
(* error's message when the call is a GET or a POST for the operation's    *)
(* own subject; when the call is a POST for a nested reference, the        *)
(* message is "Error posting a reference" and the status code is in the    *)
(* error's cause.                                                          *)
(***************************************************************************)
C9_Amended ==
    (Answered /\ LastCall.outcome.v.code.v # 200) =>
        /\ result.tag = "Err"
        /\ ~result.e.retriable
        /\ ~LastCall.parsed
        /\ IF NestedCall
           THEN /\ result.e.error = "Error posting a reference"
                /\ result.e.cause.some
                /\ Contains(result.e.cause.v, ToString(LastCall.outcome.v.code.v))
           ELSE Contains(result.e.error, ToString(LastCall.outcome.v.code.v))

C9_Witness ==
    /\ call.op = "post_schema"
    /\ Answered
    /\ LastCall.outcome.v.code.v = 500
    /\ LastCall.url = SchemaRegistryUrl \o "/subjects/sub.1.1"
    /\ result.tag = "Err"
    /\ result.e.error = "Error posting a reference"

(***************************************************************************)
(* C10 (as claimed). Whenever an HTTP call of any operation, at any        *)
(* nesting depth, fails at the transport level, the error returned to the  *)
(* caller of the operation has retriable = true.                           *)
(***************************************************************************)
C10_Original ==
    (http # <<>> /\ LastCall.outcome.tag = "Err") =>
        (result.tag = "Err" /\ result.e.retriable)

\* the operation registers a schema, and the schema it registers
Registers ==
    \/ call.op = "post_schema"
    \/ /\ call.op = "get_schema_by_subject"
       /\ call.strategy.kind \in SchemaKinds
       /\ get_subject(call.strategy).tag = "Ok"
Supplied == IF call.op = "post_schema" THEN call.schema ELSE call.strategy.schema

IdUrl(subject) == SchemaRegistryUrl \o "/subjects/" \o subject \o "/versions"
VersionUrl(subject) == SchemaRegistryUrl \o "/subjects/" \o subject

\* the URLs posted to for a list of references, depth first and post-order:
\* for each reference in listed order, first the URLs of its own references,
\* then its two URLs
RECURSIVE PostOrder(_)
PostOrder(references) ==
    IF references = <<>> THEN <<>>
    ELSE PostOrder(references[1].references)
            \o <<IdUrl(references[1].subject), VersionUrl(references[1].subject)>>
            \o PostOrder(Tail(references))

\* the text `whole` ends with the text `part`
EndsWith(whole, part) ==
    /\ Len(whole) >= Len(part)
    /\ SubSeq(whole, Len(whole) - Len(part) + 1, Len(whole)) = part

\* the call c was answered 200 with a JSON body that has the number key
PostAnswered(c, key) ==
    /\ c.method = "POST"
    /\ c.outcome.tag = "Ok"
    /\ c.outcome.v.code = Ok(200)
    /\ c.outcome.v.body.utf8
    /\ c.outcome.v.body.json.some
    /\ as_i64(Index(c.outcome.v.body.json.v, key)).some

\* the call c got what it was made for: the id from {subject}/versions, the
\* version from {subject}
PostSucceeded(c) ==
    PostAnswered(c, IF EndsWith(c.url, "/versions") THEN "id" ELSE "version")

\* the POSTs the running operation makes when none fails
ExpectedPosts ==
    IF call.op = "post_reference" THEN PostOrder(<<call.reference>>)
    ELSE PostOrder(Supplied.references) \o <<IdUrl(OwnSubject)>>

(***************************************************************************)
(* C11. Registering a schema issues the POSTs depth first and post-order:  *)
(* the POSTs made so far are a prefix of the post-order walk of the        *)
(* supplied references (each reference after all its nested references,    *)
(* siblings in listed order), every POST but the last made has succeeded,  *)
(* and the POST to {base}/subjects/{subject}/versions for the schema       *)
(* itself comes last.                                                      *)
(***************************************************************************)
C11_PostOrder ==
    Registers =>
        LET expected == ExpectedPosts
        IN  /\ Len(http) <= Len(expected)
            /\ [i \in 1..Len(http) |-> http[i].url] = SubSeq(expected, 1, Len(http))
            /\ \A i \in 1..Len(http) :
                  /\ http[i].method = "POST"
                  /\ i < Len(http) => PostSucceeded(http[i])
            /\ result.tag = "Ok" =>
                  /\ Len(http) = Len(expected)
                  /\ LastCall.url = IdUrl(OwnSubject)
                  /\ PostSucceeded(LastCall)

C11_Witness ==
    /\ call.op = "post_schema"
    /\ Len(call.schema.references) = 2
    /\ Len(call.schema.references[1].references) = 1
    /\ result.tag = "Ok"
    /\ [i \in 1..Len(http) |-> http[i].url] =
          <<IdUrl("sub.1.1"), VersionUrl("sub.1.1"), IdUrl("sub.1"), VersionUrl("sub.1"),
            IdUrl("sub.2"), VersionUrl("sub.2"), IdUrl("orders-value")>>

(***************************************************************************)
(* C12. Registering one reference makes two POSTs with the same body:      *)
(* first to {base}/subjects/{subject}/versions, which yields the id, then  *)
(* to {base}/subjects/{subject}, which yields the version. The second is   *)
(* made only after the first has succeeded, and a RegisteredReference is   *)
(* returned only when both have succeeded: its name and subject are those  *)
(* of the supplied reference and its version is the one in the second      *)
(* response.                                                               *)
(***************************************************************************)
C12_RegisterReference ==
    /\ \A i \in 1..Len(http) :
          (http[i].method = "POST" /\ ~EndsWith(http[i].url, "/versions")) =>
              /\ i > 1
              /\ http[i - 1].url = http[i].url \o "/versions"
              /\ http[i - 1].body = http[i].body
              /\ PostAnswered(http[i - 1], "id")
    /\ (call.op = "post_reference" /\ call.reference.references = <<>>) =>
          /\ Len(http) >= 1 => http[1].url = IdUrl(call.reference.subject)
          /\ Len(http) <= 2
          /\ (Len(http) = 1 /\ PostAnswered(http[1], "id")) =>
                (result = NotReturned /\ stack # <<>>)
    /\ (call.op = "post_reference" /\ result.tag = "Ok") =>
          /\ Len(http) >= 2
          /\ PostAnswered(http[Len(http) - 1], "id")
          /\ PostAnswered(LastCall, "version")
          /\ LastCall.url = VersionUrl(call.reference.subject)
          /\ result.v = [name |-> call.reference.name,
                         subject |-> call.reference.subject,
                         version |-> i64_as_u32(as_i64(Index(LastJson, "version")).v)]

C12_Witness ==
    /\ call.op = "post_reference"
    /\ call.reference.references = <<>>
    /\ Len(http) = 2
    /\ http[1].url = IdUrl("sub.1")
    /\ http[2].url = VersionUrl("sub.1")
    /\ http[1].body = http[2].body
    /\ result = Ok(RegisteredReference("ref.1", "sub.1", U32(0, 2)))
    /\ AnsweredJson
    /\ Index(LastJson, "id") = JInt(5)
    /\ Index(LastJson, "version") = JInt(2)

(***************************************************************************)
(* C13. No partial success: when a POST of a registration fails, for the   *)
(* schema or for a reference at any depth, the operation returns one error *)
(* and no RegisteredSchema or RegisteredReference, the failing call is the *)
(* last HTTP call of the operation, and after a failed reference POST the  *)
(* POST for the schema itself is never made.                               *)
(***************************************************************************)
C13_NoPartialSuccess ==
    (Registers \/ call.op = "post_reference") =>
        /\ \A i \in 1..Len(http) :
              ~PostSucceeded(http[i]) =>
                  /\ i = Len(http)
                  /\ result.tag = "Err"
                  /\ stack = <<>>
                  /\ (Registers /\ http[i].url # IdUrl(OwnSubject)) =>
                        \A j \in 1..Len(http) : http[j].url # IdUrl(OwnSubject)
        /\ result.tag = "Err" => (http # <<>> /\ ~PostSucceeded(LastCall))
        /\ result.tag = "Ok" => \A i \in 1..Len(http) : PostSucceeded(http[i])

C13_Witness ==
    /\ call.op = "post_schema"
    /\ Len(call.schema.references) = 2
    /\ Len(call.schema.references[1].references) = 1
    /\ Len(http) = 2
    /\ http[2].url = VersionUrl("sub.1.1")
    /\ ~PostSucceeded(http[2])
    /\ result.tag = "Err"
    /\ stack = <<>>

\* every SuppliedReference of a list of references, at any depth
RECURSIVE NodesOf(_)
NodesOf(references) ==
    IF references = <<>> THEN {}
    ELSE {references[1]} \cup NodesOf(references[1].references)
            \cup NodesOf(Tail(references))

\* what the running operation posts: the references at any depth, and the
\* supplied schema under the operation's own subject
Posted ==
    IF call.op = "post_reference" THEN NodesOf(<<call.reference>>)
    ELSE NodesOf(Supplied.references)
            \cup {SuppliedReference("", OwnSubject, Supplied.schema, Supplied.references)}
PostedType ==
    IF call.op = "post_reference" THEN call.schema_type
    ELSE schema_type_text(Supplied.schema_type)
PostedAt(url) == CHOOSE n \in Posted : url \in {IdUrl(n.subject), VersionUrl(n.subject)}

\* the version the registry answered for the reference registered under subject
VersionOf(subject) ==
    LET i == CHOOSE i \in 1..Len(http) : http[i].url = VersionUrl(subject)
    IN  i64_as_u32(as_i64(Index(http[i].outcome.v.body.json.v, "version")).v)

\* the resolved references of a request body, as JSON text
ReferencesText(references) ==
    "[" \o JoinWith([i \in 1..Len(references) |->
                        "{\"name\":\"" \o references[i].name
                            \o "\",\"subject\":\"" \o references[i].subject
                            \o "\",\"version\":" \o U32Text(VersionOf(references[i].subject))
                            \o "}"], ",")
        \o "]"

(***************************************************************************)
(* C14. The request body of every POST (each is the last call made in the  *)
(* state that follows it) contains the schema text under "schema" and the  *)
(* type name under "schemaType", and it contains the key "references"      *)
(* exactly when the schema or reference being posted has at least one      *)
(* resolved reference: never an empty array, and when present the array    *)
(* lists the resolved references (name, subject, version) in registration  *)
(* order.                                                                  *)
(***************************************************************************)
C14_Body ==
    ((Registers \/ call.op = "post_reference") /\ http # <<>>) =>
            LET body == LastCall.body.v
                node == PostedAt(LastCall.url)
            IN  /\ LastCall.body.some
                /\ Contains(body, "\"schema\":\"" \o node.schema \o "\"")
                /\ Contains(body, "\"schemaType\":\"" \o PostedType \o "\"")
                /\ Contains(body, "\"references\":") <=> node.references # <<>>
                /\ ~Contains(body, "\"references\":[]")
                /\ node.references # <<>> =>
                      Contains(body, "\"references\":" \o ReferencesText(node.references))

C14_Witness ==
    /\ call.op = "post_schema"
    /\ Len(http) = 5
    /\ http[1].url = IdUrl("sub.1")
    /\ http[1].body = Some("{\"schema\":\"message Ref.1 {}\",\"schemaType\":\"PROTOBUF\"}")
    /\ http[5].url = IdUrl("orders-value")
    /\ http[5].body = Some("{\"references\":[{\"name\":\"ref.1\",\"subject\":\"sub.1\",\"version\":1},{\"name\":\"ref.2\",\"subject\":\"sub.2\",\"version\":2}],\"schema\":\"message Order {}\",\"schemaType\":\"PROTOBUF\"}")

(***************************************************************************)
(* C15. A successful registration returns a RegisteredSchema whose id is   *)
(* the id in the response to the schema's own POST, whose schema_type and  *)
(* schema text are those of the supplied schema, and whose references are  *)
(* the RegisteredReferences of the supplied references, in the same order, *)
(* each with the version the registry answered; no GET is made.            *)
(***************************************************************************)
C15_Registered ==
    (Registers /\ result.tag = "Ok") =>
        /\ AnsweredJson
        /\ result.v.id = i64_as_u32(as_i64(Index(LastJson, "id")).v)
        /\ result.v.schema_type = Supplied.schema_type
        /\ result.v.schema = Supplied.schema
        /\ result.v.references =
              [i \in 1..Len(Supplied.references) |->
                  [name |-> Supplied.references[i].name,
                   subject |-> Supplied.references[i].subject,
                   version |-> VersionOf(Supplied.references[i].subject)]]
        /\ \A i \in 1..Len(http) : http[i].method = "POST"

C15_Witness ==
    /\ call.op = "post_schema"
    /\ call.schema.schema_type = Protobuf
    /\ Len(call.schema.references) = 2
    /\ result = Ok([id |-> U32(0, 5), schema_type |-> Protobuf, schema |-> SchemaText,
                    references |-> <<RegisteredReference("ref.1", "sub.1", U32(0, 1)),
                                     RegisteredReference("ref.2", "sub.2", U32(0, 2))>>])

(***************************************************************************)
(* SRCError as a state machine: an error is constructed, then cloned and   *)
(* put into a cache in any order. srcError is the value the program holds  *)
(* (the clone after clone(), the moved value after into_cache()), srcOps   *)
(* the calls that produced it.                                             *)
(***************************************************************************)
\* most calls of clone and into_cache on one error
MaxErrorOps == 3

ErrorMessages == {"Could not get id from response",
                  "error performing get to schema registry",
                  "Invalid json string"}
ErrorCauses == {None, Some("[7] Couldn't connect to server")}

\* pub fn new
SRCErrorNew ==
    /\ srcError = None
    /\ \E error \in ErrorMessages, cause \in ErrorCauses, retriable \in BOOLEAN :
          /\ srcError' = Some(SRCError_new(error, cause, retriable))
          /\ srcOps' = <<[op |-> "new", error |-> error, cause |-> cause,
                          retriable |-> retriable]>>
    /\ UNCHANGED <<codecVars, regVars, decoderVars>>

\* fn clone
SRCErrorClone ==
    /\ srcError.some
    /\ Len(srcOps) <= MaxErrorOps
    /\ srcError' = Some(SRCError_clone(srcError.v))
    /\ srcOps' = Append(srcOps, [op |-> "clone"])
    /\ UNCHANGED <<codecVars, regVars, decoderVars>>

\* pub fn into_cache
SRCErrorIntoCache ==
    /\ srcError.some
    /\ Len(srcOps) <= MaxErrorOps
    /\ srcError' = Some(SRCError_into_cache(srcError.v))
    /\ srcOps' = Append(srcOps, [op |-> "into_cache"])
    /\ UNCHANGED <<codecVars, regVars, decoderVars>>

NextError ==
    \/ SRCErrorNew
    \/ SRCErrorClone
    \/ SRCErrorIntoCache

SpecError == Init /\ [][NextError]_vars

(***************************************************************************)
(* C16. A newly constructed SRCError has cached = false and the message,   *)
(* cause and retriable it was given; into_cache() yields the same error    *)
(* with cached = true; clone yields an error equal in all four fields. So  *)
(* over any sequence of new, clone and into_cache, cached never goes from  *)
(* true back to false, becomes true only through into_cache, and retriable *)
(* stays the value given at construction.                                  *)
(***************************************************************************)
C16_ErrorFlags ==
    [][LET op == srcOps'[Len(srcOps')]
       IN  /\ op.op = "new" =>
                srcError'.v = [error |-> op.error, cause |-> op.cause,
                               retriable |-> op.retriable, cached |-> FALSE]
           /\ op.op = "into_cache" =>
                /\ srcError'.v.cached
                /\ srcError'.v.error = srcError.v.error
                /\ srcError'.v.cause = srcError.v.cause
                /\ srcError'.v.retriable = srcError.v.retriable
           /\ op.op = "clone" => srcError'.v = srcError.v
           /\ srcError.some =>
                /\ srcError.v.cached => srcError'.v.cached
                /\ (~srcError.v.cached /\ srcError'.v.cached) => op.op = "into_cache"
                /\ srcError'.v.retriable = srcOps'[1].retriable
      ]_vars

C16_Witness ==
    /\ Len(srcOps) = 4
    /\ srcOps[1].retriable
    /\ srcOps[2].op = "clone"
    /\ srcOps[3].op = "into_cache"
    /\ srcOps[4].op = "clone"
    /\ srcError.v = [error |-> srcOps[1].error, cause |-> srcOps[1].cause,
                     retriable |-> TRUE, cached |-> TRUE]

(***************************************************************************)
(* EasyProtoDecoder: easy_proto_decoder.rs 8-21. Every decoder owns an     *)
(* Arc<tokio::sync::Mutex<ProtoDecoder>>, and decode is                    *)
(*     let mut lock = self.decoder.lock().await;                           *)
(*     lock.decode(bytes).await                                            *)
(* A caller is at "lock" from its call of decode until it owns the         *)
(* MutexGuard and ProtoDecoder::decode starts, and at "fetch" while that   *)
(* decode awaits the registry. tokio's Mutex is fair: lock() takes a free  *)
(* mutex at once and otherwise queues the caller, and dropping the guard   *)
(* hands the mutex to the caller queued longest. ProtoDecoder::decode      *)
(* (wire codec, then the cache or a fetch by id, then the format decode)   *)
(* follows the resolution cache of the specification, sections 4.5 and     *)
(* 4.6: a miss calls the registry, a success is inserted and returned, a   *)
(* failure is inserted through into_cache() while the caller of the miss   *)
(* gets the error as it was, and a hit returns a clone of what is stored.  *)
(***************************************************************************)
\* most calls of decode, over all callers and decoders
MaxDecodes == 3

\* the records handed to the decoders, framed by get_payload: ids 7 and 8
\* for d1, id 7 for d2
DecodeIds == [d \in Decoders |-> IF d = "d1" THEN {U32(0, 7), U32(0, 8)} ELSE {U32(0, 7)}]
DecodeInputs(d) == {get_payload(id, <<1>>) : id \in DecodeIds[d]}

AvroEnvelope ==
    Object([id |-> Some(JInt(7)), schemaType |-> None,
            schema |-> Some(JStr("\"string\"")), references |-> None])

\* what the registry may answer to a fetch by id: one of two schemas, a
\* status 404, or no connection
FetchOutcomes ==
    {Ok(Easy(Ok(200), BodyJson(GoodEnvelope))), Ok(Easy(Ok(200), BodyJson(AvroEnvelope))),
     Ok(Easy(Ok(404), BodyNotJson)), Err(CurlError)}

Mutex_lock_barging(m, c) == [m EXCEPT !.holder = Some(c)]

\* Mutex::lock, first poll: the caller owns a free mutex at once, and joins
\* the back of the wait queue of a locked one
Mutex_lock(m, c) ==
    IF m.holder = None
    THEN [m EXCEPT !.holder = Some(c)]
    ELSE [m EXCEPT !.waiters = Append(@, c)]

Mutex_unlock_lifo(m) ==
    IF m.waiters = <<>>
    THEN [m EXCEPT !.holder = None]
    ELSE [holder |-> Some(m.waiters[Len(m.waiters)]),
          waiters |-> SubSeq(m.waiters, 1, Len(m.waiters) - 1)]

Mutex_unlock_leaked(m) == m

\* drop of the MutexGuard: the mutex passes to the front of the wait queue
Mutex_unlock(m) ==
    IF m.waiters = <<>>
    THEN [m EXCEPT !.holder = None]
    ELSE [holder |-> Some(Head(m.waiters)), waiters |-> Tail(m.waiters)]

Cache_get_never(map, id) == None

\* the cache of one decoder: a map from schema id to Result
Cache_get(map, id) == IF id \in DOMAIN map THEN Some(map[id]) ELSE None
Cache_insert(map, id, entry) ==
    [k \in DOMAIN map \cup {id} |-> IF k = id THEN entry ELSE map[k]]

\* what a lookup hands out of the cache: a clone of the stored entry
Cache_clone(entry) ==
    IF entry.tag = "Err" THEN Err(SRCError_clone(entry.e)) ELSE entry

\* the format decode of the payload with the schema found
FormatDecode(res, payload) ==
    IF res.tag = "Err" THEN res ELSE Ok([schema |-> res.v, payload |-> payload])

\* the header of the record of call c, as get_bytes_result decodes it
Header(c) == get_bytes_result(Some(task[c].bytes))

\* the MutexGuard of call c is its to use
Locked(c) == task[c].pc = "lock" /\ mutex[task[c].decoder].holder = Some(c)

\* the decode of call c returns res: the guard is dropped
Return(c, res, hit) ==
    /\ returns' = [returns EXCEPT ![task[c].decoder] = Append(@, c)]
    /\ mutex' = [mutex EXCEPT ![task[c].decoder] = Mutex_unlock(@)]
    /\ task' = [task EXCEPT ![c] = [pc |-> "done", decoder |-> task[c].decoder,
                                    bytes |-> task[c].bytes, queued |-> task[c].queued,
                                    res |-> res, hit |-> hit]]

\* pub async fn decode, up to lock().await; the call is numbered in the
\* order of the calls of decode, and `queued` tells that lock() had to wait
Decode ==
    /\ Len(task) < MaxDecodes
    /\ \E d \in Decoders :
          \E bytes \in DecodeInputs(d) :
              LET c == Len(task) + 1
                  locked == Mutex_lock(mutex[d], c)
              IN  /\ task' = Append(task, [pc |-> "lock", decoder |-> d, bytes |-> bytes,
                                           queued |-> locked.holder # Some(c)])
                  /\ mutex' = [mutex EXCEPT ![d] = locked]
    /\ UNCHANGED <<cache, fetches, returns, codecVars, regVars, errorVars>>

\* lock.decode(bytes), up to the await of the registry: the header is
\* decoded and the id looked up; a hit returns, a miss sends the GET
Resolve ==
    /\ \E c \in 1..Len(task) :
          /\ Locked(c)
          /\ LET found == Cache_get(cache[task[c].decoder], Header(c).id)
             IN  IF found.some
                 THEN /\ Return(c, FormatDecode(Cache_clone(found.v), Header(c).payload),
                                TRUE)
                      /\ UNCHANGED <<cache, fetches>>
                 ELSE /\ fetches' = [fetches EXCEPT ![task[c].decoder] = Append(@,
                            [op |-> c,
                             url |-> SchemaRegistryUrl \o "/schemas/ids/"
                                        \o U32Text(Header(c).id) \o "?deleted=true"])]
                      /\ task' = [task EXCEPT ![c].pc = "fetch"]
                      /\ UNCHANGED <<cache, mutex, returns>>
    /\ UNCHANGED <<codecVars, regVars, errorVars>>

\* lock.decode(bytes) from the registry's answer on: the result is put in
\* the cache, decode returns and the guard is dropped
GetResponse ==
    /\ \E c \in 1..Len(task), outcome \in FetchOutcomes :
          /\ task[c].pc = "fetch"
          /\ LET sent == fetches[task[c].decoder]
                 i == CHOOSE i \in 1..Len(sent) : sent[i].op = c
                 r == schema_from_url(sent[i].url, Some(Header(c).id), outcome)
                 entry == IF r.res.tag = "Err" THEN Err(SRCError_into_cache(r.res.e))
                          ELSE r.res
             IN  /\ cache' = [cache EXCEPT ![task[c].decoder] =
                                 Cache_insert(@, Header(c).id, entry)]
                 /\ Return(c, FormatDecode(r.res, Header(c).payload), FALSE)
    /\ UNCHANGED <<fetches, codecVars, regVars, errorVars>>

NextDecoder ==
    \/ Decode
    \/ Resolve
    \/ GetResponse

SpecDecoder == Init /\ [][NextDecoder]_vars

\* the calls of decode on decoder d for schema id
OnKey(d, id) == {c \in 1..Len(task) : task[c].decoder = d /\ Header(c).id = id}
\* the registry calls made for them
FetchesOf(calls) ==
    {f \in UNION {{fetches[d][i] : i \in 1..Len(fetches[d])} : d \in Decoders} :
        f.op \in calls}
\* the calls of decode on decoder d that have the gate
InPipeline(d) ==
    {c \in 1..Len(task) : task[c].decoder = d /\ (Locked(c) \/ task[c].pc = "fetch")}

(***************************************************************************)
(* C17. Single flight per key: on one decoder, which starts with an empty  *)
(* cache, the lookups of one schema id, made one after another or while an *)
(* earlier one is still running, cause exactly one registry call for that  *)
(* id, at most one of them is in flight at any time, and all successful    *)
(* lookups return the same schema.                                         *)
(***************************************************************************)
C17_SingleFlight ==
    \A d \in Decoders :
        \A id \in DecodeIds[d] :
            LET calls == OnKey(d, id)
            IN  /\ Cardinality(FetchesOf(calls)) <= 1
                /\ (\E c \in calls : task[c].pc \in {"fetch", "done"}) =>
                      Cardinality(FetchesOf(calls)) = 1
                /\ Cardinality({c \in calls : task[c].pc = "fetch"}) <= 1
                /\ \A c1, c2 \in calls :
                      (/\ task[c1].pc = "done" /\ task[c1].res.tag = "Ok"
                       /\ task[c2].pc = "done" /\ task[c2].res.tag = "Ok")
                          => task[c1].res.v.schema = task[c2].res.v.schema

C17_Witness ==
    /\ Len(task) >= 3
    /\ \A c \in 1..3 :
          /\ task[c].decoder = "d1"
          /\ Header(c).id = U32(0, 7)
          /\ task[c].pc = "done"
          /\ task[c].res.tag = "Ok"
          /\ task[c].res.v.schema.schema_type = Protobuf
          /\ c > 1 => (task[c].queued /\ task[c].hit)
    /\ fetches["d1"] = <<[op |-> 1,
                           url |-> "http://localhost:8081/schemas/ids/7?deleted=true"]>>

(***************************************************************************)
(* C18. Error caching: when the registry call of a miss fails, the cache   *)
(* holds the error with cached = true and the caller of the miss gets it   *)
(* with cached = false; every later lookup of the key gets a copy with     *)
(* cached = true and the same message, cause and retriable, and makes no   *)
(* registry call; retryable and non-retryable errors alike.                *)
(***************************************************************************)
C18_CachedError ==
    \A c \in 1..Len(task) :
        (task[c].pc = "done" /\ task[c].res.tag = "Err") =>
            LET e == task[c].res.e
                stored == cache[task[c].decoder][Header(c).id]
                first == CHOOSE c0 \in OnKey(task[c].decoder, Header(c).id) :
                            task[c0].pc = "done" /\ ~task[c0].hit
            IN  /\ stored = Err([error |-> e.error, cause |-> e.cause,
                                 retriable |-> e.retriable, cached |-> TRUE])
                /\ ~task[c].hit => (~e.cached /\ FetchesOf({c}) # {})
                /\ task[c].hit =>
                      /\ e.cached
                      /\ first < c
                      /\ e.error = task[first].res.e.error
                      /\ e.cause = task[first].res.e.cause
                      /\ e.retriable = task[first].res.e.retriable
                      /\ FetchesOf({c}) = {}

C18_Witness ==
    /\ Len(task) = 3
    /\ \A c \in 1..3 : task[c].pc = "done" /\ task[c].decoder = "d1"
    /\ Header(1).id = U32(0, 7) /\ Header(2).id = U32(0, 7)
    /\ Header(3).id = U32(0, 8)
    /\ task[1].res = Err([error |-> "error performing get to schema registry",
                          cause |-> Some("[7] Couldn't connect to server"),
                          retriable |-> TRUE, cached |-> FALSE])
    /\ task[2].res = Err([error |-> "error performing get to schema registry",
                          cause |-> Some("[7] Couldn't connect to server"),
                          retriable |-> TRUE, cached |-> TRUE])
    /\ task[3].res = Err([error |-> "Did not get a 200 response code but 404 instead",
                          cause |-> None, retriable |-> FALSE, cached |-> FALSE])
    /\ Len(fetches["d1"]) = 2

(***************************************************************************)
(* C19. Mutual exclusion of the facade: of the decode calls on one decoder *)
(* at most one is inside the resolution pipeline at any time, so at most   *)
(* one registry call of a decoder is in progress; a call waits only while  *)
(* a call on the same decoder is inside the pipeline, never for a call on  *)
(* another decoder.                                                        *)
(***************************************************************************)
C19_MutualExclusion ==
    \A d \in Decoders :
        /\ Cardinality(InPipeline(d)) <= 1
        /\ Cardinality({c \in 1..Len(task) :
                          task[c].decoder = d /\ task[c].pc = "fetch"}) <= 1
        /\ \A c \in 1..Len(task) :
              /\ (task[c].decoder = d /\ task[c].pc = "lock" /\ ~Locked(c)) =>
                    \E c2 \in InPipeline(d) : c2 # c
              /\ (task[c].decoder = d /\ task[c].queued) =>
                    \E c2 \in 1..(c - 1) : task[c2].decoder = d

C19_Witness ==
    /\ Len(task) = 3
    /\ task[1].decoder = "d1" /\ task[1].pc = "fetch"
    /\ task[2].decoder = "d1" /\ task[2].pc = "lock" /\ task[2].queued
    /\ task[3].decoder = "d2" /\ task[3].pc = "fetch" /\ ~task[3].queued
    /\ mutex["d1"] = [holder |-> Some(1), waiters |-> <<2>>]
    /\ mutex["d2"] = [holder |-> Some(3), waiters |-> <<>>]

(***************************************************************************)
(* C20. The decode calls on one decoder complete in the order in which     *)
(* they asked for the gate: when call A asks before call B, A has returned *)
(* before B gets the gate and begins its resolution, and the returns of a  *)
(* decoder are in the order of the requests.                               *)
(***************************************************************************)
C20_AcquisitionOrder ==
    /\ \A a, b \in 1..Len(task) :
          (/\ a < b
           /\ task[a].decoder = task[b].decoder
           /\ (Locked(b) \/ task[b].pc \in {"fetch", "done"}))
              => task[a].pc = "done"
    /\ \A d \in Decoders :
          \A i, j \in 1..Len(returns[d]) : i < j => returns[d][i] < returns[d][j]

C20_Witness ==
    /\ Len(task) = 3
    /\ \A c \in 1..3 : task[c].decoder = "d1"
    /\ \A c \in 2..3 : task[c].queued
    /\ returns["d1"] = <<1>>
    /\ task[2].pc = "fetch"
    /\ mutex["d1"] = [holder |-> Some(2), waiters |-> <<3>>]

(***************************************************************************)
(* The facade under a scheduler that runs what can run: the tokio runtime  *)
(* polls a task whose lock() has been granted, so ProtoDecoder::decode     *)
(* starts (Resolve), and every registry call is answered or fails, so the  *)
(* resolution terminates (GetResponse). Nothing obliges a caller to call   *)
(* decode.                                                                 *)
(***************************************************************************)
SpecDecoderFair ==
    /\ Init
    /\ [][NextDecoder]_vars
    /\ WF_vars(Resolve)
    /\ WF_vars(GetResponse)

\* call c is blocked on the gate of its decoder
Blocked(c) == task[c].pc = "lock" /\ ~Locked(c)

(***************************************************************************)
(* C21. The gate is released on every return of decode, with a value or    *)
(* with an error: no call that has returned holds the gate. A blocked call *)
(* gets the gate only in the step in which the call holding it returns.    *)
(* Provided every resolution terminates, no call waits forever: from every *)
(* state the facade comes to a state in which every call of decode made so *)
(* far, blocked on the gate or not, has returned.                          *)
(***************************************************************************)
C21_Released ==
    /\ [](\A d \in Decoders :
            /\ mutex[d].holder.some => task[mutex[d].holder.v].pc # "done"
            /\ \A i \in 1..Len(mutex[d].waiters) : task[mutex[d].waiters[i]].pc = "lock")
    /\ [][\A c \in 1..Len(task) :
            (Blocked(c) /\ ~Blocked(c)') =>
                LET before == mutex[task[c].decoder].holder.v
                IN  /\ task[before].pc # "done"
                    /\ task'[before].pc = "done"
                    /\ Locked(c)']_vars
    /\ []<>(\A c \in 1..Len(task) : task[c].pc = "done")

C21_Witness ==
    /\ Len(task) = 3
    /\ \A c \in 1..3 : task[c].decoder = "d1" /\ task[c].pc = "done"
    /\ task[2].queued /\ task[3].queued
    /\ task[1].res.tag = "Err"
    /\ task[2].res.tag = "Err"
    /\ task[3].res.tag = "Ok"
    /\ mutex["d1"] = [holder |-> None, waiters |-> <<>>]

\* the running operation is a fetch that carries no requested id
FetchWithoutId ==
    \/ call.op = "get_referenced_schema"
    \/ call.op = "get_schema_by_subject" /\ call.strategy.kind \in BareKinds

(***************************************************************************)
(* C22. A fetch that carries no requested id (get_schema_by_subject with a *)
(* strategy without schema, get_referenced_schema) and is answered 200     *)
(* with a JSON body that has no numeric `id` returns the error with        *)
(* message "Could not get id from response", no cause and retriable =      *)
(* false, never a RegisteredSchema, whatever the schemaType, schema and    *)
(* references of the body are: the id is checked first.                    *)
(***************************************************************************)
C22_IdFirst ==
    (/\ FetchWithoutId
     /\ AnsweredJson
     /\ Index(LastJson, "id").t \notin {"pos", "neg", "float"})
        => result = Err([error |-> "Could not get id from response", cause |-> None,
                         retriable |-> FALSE, cached |-> FALSE])

C22_Witness ==
    /\ call.op = "get_referenced_schema"
    /\ AnsweredJson
    /\ LastJson = JObj([schemaType |-> JInt(1),
                        references |-> JArr(<<GoodReference, BadReference>>)])
    /\ result.tag = "Err"
    /\ result.e.error = "Could not get id from response"

\* the last call read a number from its response: the id of a fetch without
\* requested id whose body is otherwise a good envelope, or the id or the
\* version of a POST
ReadsNumber ==
    /\ AnsweredJson
    /\ \/ /\ FetchWithoutId
          /\ as_str(Index(LastJson, "schema")).some
          /\ Index(LastJson, "references") = JNull
       \/ LastCall.method = "POST"
NumberKey ==
    IF LastCall.method = "GET" \/ EndsWith(LastCall.url, "/versions") THEN "id"
    ELSE "version"
LastNumber == Index(LastJson, NumberKey)

\* v mod 2^32 of the JSON integer j, on the 16-bit limbs of its magnitude
Mod32(j) ==
    IF j.t = "pos" THEN [hi |-> j.mag[3], lo |-> j.mag[4]]
    ELSE IF j.mag[4] = 0
    THEN [hi |-> (65536 - j.mag[3]) % 65536, lo |-> 0]
    ELSE [hi |-> 65535 - j.mag[3], lo |-> 65536 - j.mag[4]]

\* the number the operation returned, when it returned the number read
Returned ==
    IF NumberKey = "id" THEN result.v.id = Mod32(LastNumber)
    ELSE result.v.version = Mod32(LastNumber)

(***************************************************************************)
(* C23 (as claimed). The id and version read from a registry response are  *)
(* narrowed to 32 bits by truncation: for every integer v read, inside or  *)
(* outside 0..2^32-1, negative or not, the operation does not fail, and    *)
(* the value it returns is v mod 2^32.                                     *)
(***************************************************************************)
C23_Original ==
    (ReadsNumber /\ LastNumber.t \in {"pos", "neg"}) =>
        /\ result.tag # "Err"
        /\ result.tag = "Ok" => Returned

(***************************************************************************)
(* C23 (amended). The id of a fetch without requested id is read as a u64: *)
(* for 0 <= v < 2^64 the fetch returns v mod 2^32, and for a negative v it *)
(* fails with "Could not get id from response". The id and the version of  *)
(* a POST response are read as an i64: for -2^63 <= v < 2^63 the POST      *)
(* succeeds and yields v mod 2^32, and for v >= 2^63 the operation fails   *)
(* with a non-retryable error. For v in 0..2^32-1 the value is v itself.   *)
(***************************************************************************)
C23_Amended ==
    (ReadsNumber /\ LastNumber.t \in {"pos", "neg"}) =>
        IF LastCall.method = "GET"
        THEN IF LastNumber.t = "pos"
             THEN result.tag = "Ok" /\ Returned
             ELSE result = Err([error |-> "Could not get id from response",
                                cause |-> None, retriable |-> FALSE, cached |-> FALSE])
        ELSE IF LastNumber.t = "neg" \/ LastNumber.mag[1] < 32768
             THEN /\ result.tag # "Err"
                  /\ result.tag = "Ok" => Returned
                  /\ (LastNumber.t = "pos" /\ LastNumber.mag[1] = 0 /\ LastNumber.mag[2] = 0
                        /\ result.tag = "Ok") =>
                        IF NumberKey = "id"
                        THEN <<0, 0, result.v.id.hi, result.v.id.lo>> = LastNumber.mag
                        ELSE <<0, 0, result.v.version.hi, result.v.version.lo>>
                                = LastNumber.mag
             ELSE /\ result.tag = "Err"
                  /\ ~result.e.retriable

C23_Witness ==
    /\ call.op = "post_schema"
    /\ AnsweredJson
    /\ LastCall.method = "POST"
    /\ LastNumber = JNeg(<<0, 0, 0, 1>>)
    /\ result.tag = "Ok"
    /\ result.v.id = U32(65535, 65535)

====
